---- MODULE Spec2Model ----
(***************************************************************************)
(* A model of the data_models crate (src/src/lib.rs): the DataModel enum,  *)
(* the reverse lookup DataModel::new and the forward lookup                *)
(* DataModel::size_of::<T>, which dispatches on a marker type T to one of  *)
(* the SizeOf<T> implementations.  Callers construct a DataModel (by       *)
(* naming a variant or through new), ask one size of it (size_of takes     *)
(* self by value, so the value is consumed), and start over.               *)
(***************************************************************************)
EXTENDS Integers, Sequences, FiniteSets, TLC

(***************************************************************************)
(* Bounds of the model.                                                    *)
(***************************************************************************)
\* new is called with every triple of 0..MaxSize.
MaxSize == 9
\* The callers of the interleaved specification are 1..NumCallers.
NumCallers == 2

Sizes == 0..MaxSize
Callers == 1..NumCallers

(***************************************************************************)
(* The state: what each caller holds.                                      *)
(***************************************************************************)
VARIABLES
    pc,     \* pc[c]: "idle", "new", "model", "size_of" or "done"
    args,   \* args[c]: the triple given to new, <<>> when new was not called
    model,  \* model[c]: the DataModel the caller made (kept after size_of
            \* consumed it, to say what was asked)
    ty,     \* ty[c]: the type parameter of the size_of call
    size    \* size[c]: what size_of returned

vars == <<pc, args, model, ty, size>>

(***************************************************************************)
(* The types of the crate.                                                 *)
(***************************************************************************)
DataModel ==
    {"IP16", "IP16L32", "LP32", "ILP32", "LLP64", "LP64", "ILP64", "SILP64",
     "Unknown"}

\* The six marker types Char, Short, Int, Long, LongLong, Pointer.
TypeCategory == {"Char", "Short", "Int", "Long", "LongLong", "Pointer"}

\* size_of::<T> is generic: any other T (here one representative) is served
\* by the blanket implementation.
OtherType == "Other"

Types == TypeCategory \cup {OtherType}

(***************************************************************************)
(* DataModel::new: a match on the triple, first matching arm wins.         *)
(***************************************************************************)
\* Mutant: the LLP64 and LP64 arms exchanged.
new_swapped(int, long, pointer) ==
    LET t == <<int, long, pointer>> IN
    CASE t = <<2, 0, 2>> -> "IP16"
      [] t = <<2, 4, 2>> -> "IP16L32"
      [] t = <<2, 4, 4>> -> "LP32"
      [] t = <<4, 4, 4>> -> "ILP32"
      [] t = <<4, 4, 8>> -> "LP64"
      [] t = <<4, 8, 8>> -> "LLP64"
      [] t = <<8, 8, 8>> -> "ILP64"
      [] OTHER -> "Unknown"

\* Mutant: (8, 8, 8) resolved to SILP64, the other all-64-bit model.
new_silp64(int, long, pointer) ==
    LET t == <<int, long, pointer>> IN
    CASE t = <<2, 0, 2>> -> "IP16"
      [] t = <<2, 4, 2>> -> "IP16L32"
      [] t = <<2, 4, 4>> -> "LP32"
      [] t = <<4, 4, 4>> -> "ILP32"
      [] t = <<4, 4, 8>> -> "LLP64"
      [] t = <<4, 8, 8>> -> "LP64"
      [] t = <<8, 8, 8>> -> "SILP64"
      [] OTHER -> "Unknown"

\* Mutant: the arguments pass through one shared slot, which holds those of
\* the latest caller to have entered new and not yet left it.
new_shared(int, long, pointer) ==
    LET inflight == {d \in Callers : pc[d] = "new"}
        t == IF inflight = {}
             THEN <<int, long, pointer>>
             ELSE args[CHOOSE d \in inflight : \A e \in inflight : e <= d]
    IN
    CASE t = <<2, 0, 2>> -> "IP16"
      [] t = <<2, 4, 2>> -> "IP16L32"
      [] t = <<2, 4, 4>> -> "LP32"
      [] t = <<4, 4, 4>> -> "ILP32"
      [] t = <<4, 4, 8>> -> "LLP64"
      [] t = <<4, 8, 8>> -> "LP64"
      [] t = <<8, 8, 8>> -> "ILP64"
      [] OTHER -> "Unknown"

new(int, long, pointer) ==
    LET t == <<int, long, pointer>> IN
    CASE t = <<2, 0, 2>> -> "IP16"
      [] t = <<2, 4, 2>> -> "IP16L32"
      [] t = <<2, 4, 4>> -> "LP32"
      [] t = <<4, 4, 4>> -> "ILP32"
      [] t = <<4, 4, 8>> -> "LLP64"
      [] t = <<4, 8, 8>> -> "LP64"
      [] t = <<8, 8, 8>> -> "ILP64"
      [] OTHER -> "Unknown"

(***************************************************************************)
(* The SizeOf<T> implementations.                                          *)
(***************************************************************************)
\* impl<T, U> SizeOf<T> for U: the default.
SizeOfDefault(self) == 0

\* Mutant: the width in bits, as in the comments of the enum, not in bytes.
SizeOfChar_bits(self) ==
    CASE self \in {"IP16", "IP16L32", "LP32", "ILP32", "LLP64", "LP64",
                   "ILP64", "SILP64"} -> 8
      [] self = "Unknown" -> 0

SizeOfChar(self) ==
    CASE self \in {"IP16", "IP16L32", "LP32", "ILP32", "LLP64", "LP64",
                   "ILP64", "SILP64"} -> 1
      [] self = "Unknown" -> 0

\* Mutant: SILP64 taken with the models whose short is 16 bits.
SizeOfShort_silp64(self) ==
    CASE self \in {"IP16L32", "LP32", "ILP32", "LLP64", "LP64", "ILP64",
                   "SILP64"} -> 2
      [] self \in {"Unknown", "IP16"} -> 0

SizeOfShort(self) ==
    CASE self \in {"IP16L32", "LP32", "ILP32", "LLP64", "LP64", "ILP64"} -> 2
      [] self = "SILP64" -> 8
      [] self \in {"Unknown", "IP16"} -> 0

\* Mutant: ILP64 taken with the models whose int is 32 bits.
SizeOfInt_ilp64(self) ==
    CASE self \in {"IP16", "IP16L32", "LP32"} -> 2
      [] self \in {"ILP32", "LLP64", "LP64", "ILP64"} -> 4
      [] self = "SILP64" -> 8
      [] self = "Unknown" -> 0

SizeOfInt(self) ==
    CASE self \in {"IP16", "IP16L32", "LP32"} -> 2
      [] self \in {"ILP32", "LLP64", "LP64"} -> 4
      [] self \in {"ILP64", "SILP64"} -> 8
      [] self = "Unknown" -> 0

\* Mutant: IP16 given the 32-bit long of IP16L32.
SizeOfLong_ip16(self) ==
    CASE self \in {"IP16", "IP16L32", "LP32", "ILP32", "LLP64"} -> 4
      [] self \in {"LP64", "ILP64", "SILP64"} -> 8
      [] self = "Unknown" -> 0

\* Mutant: the long of IP16L32 as wide as its int.
SizeOfLong_ip16l32(self) ==
    CASE self = "IP16L32" -> 2
      [] self \in {"LP32", "ILP32", "LLP64"} -> 4
      [] self \in {"LP64", "ILP64", "SILP64"} -> 8
      [] self \in {"Unknown", "IP16"} -> 0

SizeOfLong(self) ==
    CASE self \in {"IP16L32", "LP32", "ILP32", "LLP64"} -> 4
      [] self \in {"LP64", "ILP64", "SILP64"} -> 8
      [] self \in {"Unknown", "IP16"} -> 0

\* Mutant: IP16L32 given a 64-bit long long.
SizeOfLongLong_ip16l32(self) ==
    CASE self \in {"IP16L32", "LP32", "ILP32", "LLP64", "LP64", "ILP64",
                   "SILP64"} -> 8
      [] self \in {"Unknown", "IP16"} -> 0

SizeOfLongLong(self) ==
    CASE self \in {"LP32", "ILP32", "LLP64", "LP64", "ILP64", "SILP64"} -> 8
      [] self \in {"Unknown", "IP16", "IP16L32"} -> 0

SizeOfPointer(self) ==
    CASE self \in {"IP16", "IP16L32"} -> 2
      [] self \in {"LP32", "ILP32"} -> 4
      [] self \in {"LLP64", "LP64", "ILP64", "SILP64"} -> 8
      [] self = "Unknown" -> 0

\* DataModel::size_of::<T>: <DataModel as SizeOf<T>>::size_of(self), the
\* specialised implementation for a marker type, the default otherwise.
size_of(self, T) ==
    CASE T = "Char" -> SizeOfChar(self)
      [] T = "Short" -> SizeOfShort(self)
      [] T = "Int" -> SizeOfInt(self)
      [] T = "Long" -> SizeOfLong(self)
      [] T = "LongLong" -> SizeOfLongLong(self)
      [] T = "Pointer" -> SizeOfPointer(self)
      [] OTHER -> SizeOfDefault(self)

(***************************************************************************)
(* The callers.                                                            *)
(***************************************************************************)
NoValue == "none"

Init ==
    /\ pc = [c \in Callers |-> "idle"]
    /\ args = [c \in Callers |-> <<>>]
    /\ model = [c \in Callers |-> NoValue]
    /\ ty = [c \in Callers |-> NoValue]
    /\ size = [c \in Callers |-> NoValue]

\* The caller enters DataModel::new(int, long, pointer).
CallNew(c, S) ==
    /\ pc[c] = "idle"
    /\ \E int \in S, long \in S, pointer \in S :
           args' = [args EXCEPT ![c] = <<int, long, pointer>>]
    /\ pc' = [pc EXCEPT ![c] = "new"]
    /\ UNCHANGED <<model, ty, size>>

\* new returns.
ReturnNew(c) ==
    /\ pc[c] = "new"
    /\ model' = [model EXCEPT ![c] = new(args[c][1], args[c][2], args[c][3])]
    /\ pc' = [pc EXCEPT ![c] = "model"]
    /\ UNCHANGED <<args, ty, size>>

\* The caller names a variant: let model = DataModel::LP64.
Variant(c, M) ==
    /\ pc[c] = "idle"
    /\ \E m \in M : model' = [model EXCEPT ![c] = m]
    /\ pc' = [pc EXCEPT ![c] = "model"]
    /\ UNCHANGED <<args, ty, size>>

\* The caller enters model.size_of::<T>().
CallSizeOf(c, Ts) ==
    /\ pc[c] = "model"
    /\ \E T \in Ts : ty' = [ty EXCEPT ![c] = T]
    /\ pc' = [pc EXCEPT ![c] = "size_of"]
    /\ UNCHANGED <<args, model, size>>

\* size_of returns.
ReturnSizeOf(c) ==
    /\ pc[c] = "size_of"
    /\ size' = [size EXCEPT ![c] = size_of(model[c], ty[c])]
    /\ pc' = [pc EXCEPT ![c] = "done"]
    /\ UNCHANGED <<args, model, ty>>

\* The caller drops what it has and starts over.
Drop(c) ==
    /\ pc[c] \in {"model", "done"}
    /\ pc' = [pc EXCEPT ![c] = "idle"]
    /\ args' = [args EXCEPT ![c] = <<>>]
    /\ model' = [model EXCEPT ![c] = NoValue]
    /\ ty' = [ty EXCEPT ![c] = NoValue]
    /\ size' = [size EXCEPT ![c] = NoValue]

\* One caller, every input: the two lookups as functions of their arguments.
Next ==
    \/ CallNew(1, Sizes)
    \/ ReturnNew(1)
    \/ Variant(1, DataModel)
    \/ CallSizeOf(1, Types)
    \/ ReturnSizeOf(1)
    \/ Drop(1)

Spec == Init /\ [][Next]_vars

(***************************************************************************)
(* Several callers, interleaved.  A call is two steps, its entry and its   *)
(* return, so the calls of different callers overlap.  The inputs are a    *)
(* sample: the inputs themselves are covered by Spec.                      *)
(***************************************************************************)
ConcSizes == {4, 8}
ConcModels == {"IP16", "LP64", "SILP64"}
ConcTypes == {"Short", "Pointer"}

NextConc ==
    \E c \in Callers :
        \/ CallNew(c, ConcSizes)
        \/ ReturnNew(c)
        \/ Variant(c, ConcModels)
        \/ CallSizeOf(c, ConcTypes)
        \/ ReturnSizeOf(c)
        \/ Drop(c)

SpecConc == Init /\ [][NextConc]_vars

(***************************************************************************)
(* What the specification of the crate states, written from its text: the  *)
(* size table and the matched triples.                                     *)
(***************************************************************************)
\* Columns in the order Char, Short, Int, Long, LongLong, Pointer.
SizeTable ==
    [IP16    |-> <<1, 0, 2, 0, 0, 2>>,
     IP16L32 |-> <<1, 2, 2, 4, 0, 2>>,
     LP32    |-> <<1, 2, 2, 4, 8, 4>>,
     ILP32   |-> <<1, 2, 4, 4, 8, 4>>,
     LLP64   |-> <<1, 2, 4, 4, 8, 8>>,
     LP64    |-> <<1, 2, 4, 8, 8, 8>>,
     ILP64   |-> <<1, 2, 8, 8, 8, 8>>,
     SILP64  |-> <<1, 8, 8, 8, 8, 8>>,
     Unknown |-> <<0, 0, 0, 0, 0, 0>>]

Column ==
    [Char |-> 1, Short |-> 2, Int |-> 3, Long |-> 4, LongLong |-> 5,
     Pointer |-> 6]

ExpectedSize(m, T) == SizeTable[m][Column[T]]

MatchedTriples ==
    {<<<<2, 0, 2>>, "IP16">>, <<<<2, 4, 2>>, "IP16L32">>,
     <<<<2, 4, 4>>, "LP32">>, <<<<4, 4, 4>>, "ILP32">>,
     <<<<4, 4, 8>>, "LLP64">>, <<<<4, 8, 8>>, "LP64">>,
     <<<<8, 8, 8>>, "ILP64">>}

ExpectedModel(t) ==
    IF \E p \in MatchedTriples : p[1] = t
    THEN (CHOOSE p \in MatchedTriples : p[1] = t)[2]
    ELSE "Unknown"

\* The pairs for which no size is determined, besides those of Unknown.
Unsupported ==
    {<<"IP16", "Short">>, <<"IP16", "Long">>, <<"IP16", "LongLong">>,
     <<"IP16L32", "LongLong">>}

\* The caller holds (or held, until size_of consumed it) a DataModel.
HasModel(c) == pc[c] \in {"model", "size_of", "done"}
\* ... which new returned.
FromNew(c) == HasModel(c) /\ args[c] # <<>>
\* size_of::<T> has returned to the caller, T one of the six categories.
Sized(c) == pc[c] = "done" /\ ty[c] \in TypeCategory

\* The (int, long, pointer) sizes of a model.
Triple(m) == <<size_of(m, "Int"), size_of(m, "Long"), size_of(m, "Pointer")>>

(***************************************************************************)
(* The claims.                                                             *)
(***************************************************************************)

\* C1: whatever model and category size_of was called with, the size it
\* returned is the entry of the fixed 9 x 6 table.
C1_SizeTable ==
    \A c \in Callers :
        Sized(c) => size[c] = ExpectedSize(model[c], ty[c])

C1_Witness ==
    /\ pc[1] = "done" /\ model[1] = "SILP64" /\ ty[1] = "Short" /\ size[1] = 8

\* C2: whatever triple new was called with, it returned a DataModel: the
\* model of the triple if it is one of the seven matched triples, Unknown
\* for every other triple.
C2_NewTable ==
    \A c \in Callers :
        FromNew(c) =>
            /\ model[c] \in DataModel
            /\ model[c] = ExpectedModel(args[c])
            /\ (args[c] \in {<<9, 9, 9>>, <<0, 0, 0>>, <<4, 2, 4>>, <<8, 8, 4>>}
                    => model[c] = "Unknown")

C2_Witness ==
    /\ pc[1] = "model" /\ args[1] = <<8, 8, 4>> /\ model[1] = "Unknown"

\* C3: for the model m a caller holds, new of m's (Int, Long, Pointer) sizes
\* is m, but ILP64 when m is SILP64; and no other variant than m, SILP64
\* aside, has m's (Int, Long, Pointer) sizes.
C3_NewOfSizes ==
    \A c \in Callers :
        pc[c] = "model" =>
            LET m == model[c]
                t == Triple(m)
            IN  /\ new(t[1], t[2], t[3]) = IF m = "SILP64" THEN "ILP64" ELSE m
                /\ \A m2 \in DataModel \ {"SILP64"} :
                       (m # "SILP64" /\ Triple(m2) = t) => m2 = m

C3_Witness ==
    /\ pc[1] = "model" /\ args[1] = <<>> /\ model[1] = "SILP64"
    /\ Triple(model[1]) = <<8, 8, 8>>

\* C4: when the model new returned for (i, l, p) is not Unknown, its Int,
\* Long and Pointer sizes are i, l and p; when it is Unknown, each of its six
\* sizes is 0.
C4_SizesOfNew ==
    \A c \in Callers :
        (FromNew(c) /\ Sized(c)) =>
            IF model[c] # "Unknown"
            THEN /\ ty[c] = "Int" => size[c] = args[c][1]
                 /\ ty[c] = "Long" => size[c] = args[c][2]
                 /\ ty[c] = "Pointer" => size[c] = args[c][3]
            ELSE size[c] = 0

C4_Witness ==
    /\ pc[1] = "done" /\ args[1] = <<4, 8, 8>> /\ model[1] # "Unknown"
    /\ ty[1] = "Pointer" /\ size[1] = 8

\* C5: new never returns SILP64, and returns ILP64 for (8, 8, 8); SILP64 has
\* the Int, Long and Pointer sizes 8, 8, 8 of ILP64 and differs from it in
\* its Short size, 8 against 2.
C5_NeverSILP64 ==
    \A c \in Callers :
        /\ FromNew(c) =>
               /\ model[c] # "SILP64"
               /\ args[c] = <<8, 8, 8>> => model[c] = "ILP64"
        /\ (Sized(c) /\ model[c] \in {"ILP64", "SILP64"}) =>
               /\ ty[c] \in {"Int", "Long", "Pointer"} => size[c] = 8
               /\ ty[c] = "Short" =>
                      size[c] = IF model[c] = "SILP64" THEN 8 ELSE 2

C5_Witness ==
    /\ pc[1] = "done" /\ args[1] = <<8, 8, 8>> /\ model[1] = "ILP64"
    /\ ty[1] = "Short" /\ size[1] = 2

\* The model has a non-zero size for each of char, short, int, long and
\* long long.
AllDefined(m) ==
    \A T \in {"Char", "Short", "Int", "Long", "LongLong"} : size_of(m, T) # 0

\* C6: for the model a caller holds, if its char, short, int, long and long
\* long sizes are all non-zero, they are non-decreasing in that order.
C6_Monotone ==
    \A c \in Callers :
        (pc[c] = "model" /\ AllDefined(model[c])) =>
            /\ size_of(model[c], "Char") <= size_of(model[c], "Short")
            /\ size_of(model[c], "Short") <= size_of(model[c], "Int")
            /\ size_of(model[c], "Int") <= size_of(model[c], "Long")
            /\ size_of(model[c], "Long") <= size_of(model[c], "LongLong")

C6_Witness ==
    /\ pc[1] = "model" /\ model[1] = "LP32" /\ AllDefined(model[1])
    /\ size_of(model[1], "Short") = size_of(model[1], "Int")

\* C7: size_of returns a natural number, and returns 0 exactly when the
\* model is Unknown or the pair is one of (IP16, Short), (IP16, Long),
\* (IP16, LongLong), (IP16L32, LongLong).
C7_ZeroIffUnsupported ==
    \A c \in Callers :
        Sized(c) =>
            /\ size[c] \in Nat
            /\ size[c] = 0 <=>
                   (model[c] = "Unknown" \/ <<model[c], ty[c]>> \in Unsupported)

C7_Witness ==
    /\ pc[1] = "done" /\ model[1] = "IP16L32" /\ ty[1] = "LongLong"
    /\ size[1] = 0

\* C9: in every interleaving of the callers' calls, each call has returned
\* what it returns when run alone: new the model of its triple, size_of the
\* entry of the table.
C9_Interleaved ==
    \A c \in Callers :
        /\ FromNew(c) => model[c] = ExpectedModel(args[c])
        /\ Sized(c) => size[c] = ExpectedSize(model[c], ty[c])

\* One caller has its results while another, which entered new with other
\* arguments, is still inside it.
C9_Witness ==
    /\ pc[1] = "done" /\ args[1] = <<8, 8, 8>> /\ model[1] = "ILP64"
    /\ ty[1] = "Short" /\ size[1] = 2
    /\ pc[2] = "new" /\ args[2] = <<4, 4, 8>>

\* C10: a non-zero size is at least 2 for Short, Int and Pointer, at least 4
\* for Long, at least 8 for LongLong, and is 1 for Char.
C10_MinimumWidths ==
    \A c \in Callers :
        (Sized(c) /\ size[c] # 0) =>
            /\ ty[c] \in {"Short", "Int", "Pointer"} => size[c] >= 2
            /\ ty[c] = "Long" => size[c] >= 4
            /\ ty[c] = "LongLong" => size[c] >= 8
            /\ ty[c] = "Char" => size[c] = 1

C10_Witness ==
    /\ pc[1] = "done" /\ model[1] = "IP16L32" /\ ty[1] = "Long" /\ size[1] = 4

====
